---- MODULE Spec2Model ----
(***************************************************************************)
(* Model of nvr-motion/ffmpeg/wrapper.c: the FFmpeg accessor shim of       *)
(* Moonfire NVR.  The lock-manager bootstrap (moonfire_ffmpeg_init and the *)
(* lock_callback it registers) is the state machine Spec; the field        *)
(* accessors are modelled by the specifications further down.              *)
(***************************************************************************)
EXTENDS Integers, FiniteSets, Sequences, TLC

VARIABLES
    macro,       \* how the build defines FF_API_LOCKMGR
    initpc,      \* position of moonfire_ffmpeg_init: "start", "returned", "aborted"
    regRet,      \* the results av_lockmgr_register returned: <<>> while it was
                 \* not called, <<r>> once it returned r
    mutex,       \* the caller's handles: mutex[h] is the value of *mutex
    heap,        \* state of each malloc'ed block holding a pthread_mutex_t
    owner,       \* the thread owning each pthread mutex, 0 when unlocked
    held,        \* held[t]: handles t obtained successfully and has not released
    last         \* the last lock_callback call: its inputs, what the
                 \* underlying calls returned, and its return value

VARIABLES
    pkt,         \* the AVPacket shell of moonfire_ffmpeg_packet_alloc
    rawmem,      \* what the allocator's next block holds before malloc hands it out
    hist,        \* the values most recently passed to the setters
    cctx,        \* an AVCodecContext owned by FFmpeg
    vp,          \* the caller's struct VideoParameters
    codecpar,    \* an AVCodecParameters owned by FFmpeg
    frame,       \* an AVFrame
    out          \* the last accessor call: its name, arguments and result

lockVars == <<macro, initpc, regRet, mutex, heap, owner, held, last>>
accVars == <<pkt, rawmem, hist, cctx, vp, codecpar, frame, out>>

vars == <<lockVars, accVars>>

----------------------------------------------------------------------------
(* C integer types.  TLC's integers are 32 bits wide, so the widths are    *)
(* scaled down: int has IntBits bits, int64_t has Int64Bits and size_t has *)
(* SizeBits, with IntBits < Int64Bits <= SizeBits as on an LP64 build, and *)
(* the conversions between them wrap as the C conversions do.              *)
IntBits == 20
Int64Bits == 28
SizeBits == 28

IntMin == -(2^(IntBits - 1))
IntMax == 2^(IntBits - 1) - 1
Int64Min == -(2^(Int64Bits - 1))
Int64Max == 2^(Int64Bits - 1) - 1
SizeMax == 2^SizeBits - 1

\* conversion to a signed type of the given width (two's complement wrap)
Wrap(v, bits) ==
    LET m == v % (2^bits) IN IF m >= 2^(bits - 1) THEN m - 2^bits ELSE m
ToInt(v) == Wrap(v, IntBits)
ToInt64(v) == Wrap(v, Int64Bits)
\* conversion to size_t: the value modulo SIZE_MAX + 1
ToSize(v) == v % (2^SizeBits)

\* values the host passes and FFmpeg stores
IntSamples == {IntMin, -1, 0, 33, IntMax}
TsSamples == {Int64Min, 900, 1000, Int64Max}
\* pointers: NULL and two buffers
Ptr == {0, 1, 2}

\* AV_PKT_FLAG_KEY
AV_PKT_FLAG_KEY == 1

----------------------------------------------------------------------------
(* Packet shells *)

Packet(fl, pts, dts, dur, si, data, size) ==
    [flags |-> fl, pts |-> pts, dts |-> dts, duration |-> dur,
     stream_index |-> si, data |-> data, size |-> size]

\* what a block of sizeof(AVPacket) bytes can hold when malloc returns it:
\* zero bytes (a fresh page), 0xff bytes, or the remains of an earlier object
RawSamples ==
    { Packet(0, 0, 0, 0, 0, 0, 0),
      Packet(-1, -1, -1, -1, -1, 2, -1),
      Packet(1, Int64Max, Int64Min, Int64Max, IntMax, 1, IntMin) }

\* the packet pointer is NULL (no shell, or malloc failed)
NoPacket == [live |-> FALSE]
Shell(p) == [live |-> TRUE, f |-> p]

\* return malloc(sizeof(AVPacket)): the block as the allocator left it, or NULL
moonfire_ffmpeg_packet_alloc(ok, raw) == IF ok THEN Shell(raw) ELSE NoPacket

\* a free that does not release the shell
moonfire_ffmpeg_packet_free_leak(p) == p

\* free(pkt)
moonfire_ffmpeg_packet_free(p) == NoPacket

\* (pkt->flags & AV_PKT_FLAG_KEY) != 0: bit 0 of the two's complement flags
moonfire_ffmpeg_packet_is_key(p) == (p.f.flags % (2 * AV_PKT_FLAG_KEY)) >= AV_PKT_FLAG_KEY
moonfire_ffmpeg_packet_pts(p) == p.f.pts

\* set_dts written with the field of the setter next to it
moonfire_ffmpeg_packet_set_dts_pts(p, dts) == [p EXCEPT !.f.pts = dts]

moonfire_ffmpeg_packet_set_dts(p, dts) == [p EXCEPT !.f.dts = dts]
moonfire_ffmpeg_packet_set_pts(p, pts) == [p EXCEPT !.f.pts = pts]
\* int dur, stored in the int64_t field
moonfire_ffmpeg_packet_set_duration(p, dur) == [p EXCEPT !.f.duration = ToInt64(dur)]
moonfire_ffmpeg_packet_dts(p) == p.f.dts
\* the int64_t field, returned as int
moonfire_ffmpeg_packet_duration(p) == ToInt(p.f.duration)
moonfire_ffmpeg_packet_stream_index(p) == p.f.stream_index

\* struct moonfire_ffmpeg_data {uint8_t *data; size_t len;}
Span(data, len) == [data |-> data, len |-> len]

\* a packet_data that takes the length from the int field next to size
moonfire_ffmpeg_packet_data_index(p) == Span(p.f.data, ToSize(p.f.stream_index))

\* {pkt->data, pkt->size}: the int size converted to size_t
moonfire_ffmpeg_packet_data(p) == Span(p.f.data, ToSize(p.f.size))

----------------------------------------------------------------------------
(* Codec contexts, codec parameters and frames *)

Rational(n, d) == [num |-> n, den |-> d]

\* struct VideoParameters
VideoParameters(w, h, sar, fmt, tb) ==
    [width |-> w, height |-> h, sample_aspect_ratio |-> sar, pix_fmt |-> fmt,
     time_base |-> tb]

\* bundles the host passes: 1080p YUV420P at 1/90000, a small 4:3 RGB24
\* stream, the extreme values, and an all-zero bundle
ParamSamples ==
    { VideoParameters(1920, 1080, Rational(1, 1), 0, Rational(1, 90000)),
      VideoParameters(64, 48, Rational(4, 3), 2, Rational(2, 25)),
      VideoParameters(IntMax, IntMin, Rational(-1, IntMax), -1, Rational(IntMin, -1)),
      VideoParameters(0, 0, Rational(0, 0), 0, Rational(0, 0)) }

\* the fields of AVCodecContext the shim touches
CodecContext(p, id, type, xd, xs) ==
    [width |-> p.width, height |-> p.height,
     sample_aspect_ratio |-> p.sample_aspect_ratio, pix_fmt |-> p.pix_fmt,
     time_base |-> p.time_base, codec_id |-> id, codec_type |-> type,
     extradata |-> xd, extradata_size |-> xs]

moonfire_ffmpeg_cctx_params(ctx, p) ==
    [p EXCEPT !.width = ctx.width, !.height = ctx.height,
              !.sample_aspect_ratio = ctx.sample_aspect_ratio,
              !.pix_fmt = ctx.pix_fmt, !.time_base = ctx.time_base]

\* set_params that copies time_base into sample_aspect_ratio as well
moonfire_ffmpeg_cctx_set_params_sar(ctx, p) ==
    [ctx EXCEPT !.width = p.width, !.height = p.height,
                !.sample_aspect_ratio = p.time_base,
                !.pix_fmt = p.pix_fmt, !.time_base = p.time_base]

moonfire_ffmpeg_cctx_set_params(ctx, p) ==
    [ctx EXCEPT !.width = p.width, !.height = p.height,
                !.sample_aspect_ratio = p.sample_aspect_ratio,
                !.pix_fmt = p.pix_fmt, !.time_base = p.time_base]

moonfire_ffmpeg_cctx_codec_id(c) == c.codec_id
moonfire_ffmpeg_cctx_codec_type(c) == c.codec_type
\* {cctx->extradata, cctx->extradata_size}
moonfire_ffmpeg_cctx_extradata(c) == Span(c.extradata, ToSize(c.extradata_size))

\* struct moonfire_ffmpeg_image_dimensions
Dims(w, h, fmt) == [width |-> w, height |-> h, pix_fmt |-> fmt]

\* the fields of AVCodecParameters the shim reads
CodecParameters(d, id, type, xd, xs) ==
    [width |-> d.width, height |-> d.height, format |-> d.pix_fmt,
     codec_id |-> id, codec_type |-> type, extradata |-> xd, extradata_size |-> xs]

\* dimensions of the streams: 64x64 RGB24, 320x240 BGR24, no size, no format
DimSamples == {Dims(64, 64, 2), Dims(320, 240, 3), Dims(0, 0, 2), Dims(64, 64, -1)}

moonfire_ffmpeg_codecpar_dims(cp) == Dims(cp.width, cp.height, cp.format)
\* {codecpar->extradata, codecpar->extradata_size}
moonfire_ffmpeg_codecpar_extradata(cp) == Span(cp.extradata, ToSize(cp.extradata_size))

\* the fields of AVFrame the shim touches; planes tells whether data[] and
\* linesize[] were filled by av_image_alloc
Frame(w, h, fmt, planes, pts) ==
    [width |-> w, height |-> h, format |-> fmt, planes |-> planes, pts |-> pts]

\* av_image_alloc(..., align 32) of packed 24-bit pixels: the buffer size on
\* success, AVERROR(ENOMEM) when the allocation fails, AVERROR(EINVAL) for
\* dimensions or a format it rejects
Align32(n) == ((n + 31) \div 32) * 32
ImageAllocResults(d) ==
    IF d.width > 0 /\ d.height > 0 /\ d.pix_fmt \in {2, 3}
    THEN {Align32(3 * d.width) * d.height, -12}
    ELSE {-22}

\* frame_image_alloc that fills in the frame before it looks at r
moonfire_ffmpeg_frame_image_alloc_early(f, d, r) ==
    [frame |-> [f EXCEPT !.width = d.width, !.height = d.height,
                         !.format = d.pix_fmt,
                         !.planes = IF r < 0 THEN f.planes ELSE TRUE],
     ret |-> r]

\* r is av_image_alloc's result
moonfire_ffmpeg_frame_image_alloc(f, d, r) ==
    IF r < 0 THEN [frame |-> f, ret |-> r]
    ELSE [frame |-> [f EXCEPT !.width = d.width, !.height = d.height,
                              !.format = d.pix_fmt, !.planes = TRUE],
          ret |-> r]

\* struct moonfire_ffmpeg_frame_stuff
moonfire_ffmpeg_frame_stuff(f) ==
    [dims |-> Dims(f.width, f.height, f.format), planes |-> f.planes, pts |-> f.pts]

\* no accessor has been called
NoOut == [fn |-> "none"]
NoHist == [pts |-> <<>>, dts |-> <<>>, duration |-> <<>>, params |-> <<>>]

\* the accessor objects while only the lock manager runs
AccIdle ==
    /\ pkt = NoPacket
    /\ rawmem = Packet(0, 0, 0, 0, 0, 0, 0)
    /\ hist = NoHist
    /\ cctx = CodecContext(VideoParameters(0, 0, Rational(0, 1), -1, Rational(0, 1)),
                           0, -1, 0, 0)
    /\ vp = VideoParameters(0, 0, Rational(0, 0), 0, Rational(0, 0))
    /\ codecpar = CodecParameters(Dims(0, 0, -1), 0, -1, 0, 0)
    /\ frame = Frame(0, 0, -1, FALSE, Int64Min)
    /\ out = NoOut

----------------------------------------------------------------------------
(* Bounds of the lock-manager model. *)
NThreads == 2
NHandles == 2

Thread == 1..NThreads
Handle == 1..NHandles
\* one block more than there are handles, so that a leaked block can coexist
\* with a live mutex on every handle before malloc runs out
Addr == 1..(NHandles + 1)

NULL == 0
NoCall == "nocall"

\* FF_API_LOCKMGR: not defined (old builds), defined as 1, defined as 0
Macros == {"undefined", "1", "0"}

\* results av_lockmgr_register can return: a negative AVERROR, 0, a positive int
RegisterResults == {-1, 0, 1}

\* results of the pthread calls: 0 or an errno (EAGAIN, EBUSY)
PthreadResults == {0, 11, 16}

LockOps == {"AV_LOCK_CREATE", "AV_LOCK_OBTAIN", "AV_LOCK_RELEASE", "AV_LOCK_DESTROY"}
\* an enum AVLockOp value outside the four known ones
OtherOp == "AV_LOCK_OTHER"

----------------------------------------------------------------------------
(* pthread and allocator primitives, on the heap / owner maps *)

\* malloc(sizeof(pthread_mutex_t)): NULL, or the lowest free block (blocks
\* are interchangeable); NULL is the only result when no block is free
FreeAddrs(hp) == {a \in Addr : hp[a] = "free"}
MallocResults(hp) ==
    {NULL} \cup (IF FreeAddrs(hp) = {} THEN {}
                 ELSE {CHOOSE a \in FreeAddrs(hp) : \A b \in FreeAddrs(hp) : a <= b})

pthread_mutex_lock(ow, a, t) == [ow EXCEPT ![a] = t]
pthread_mutex_unlock(ow, a) == [ow EXCEPT ![a] = 0]

\* what one call of lock_callback leaves: the new *mutex, heap, owners, and
\* the return value
Result(m, hp, ow, r) == [mutex |-> m, heap |-> hp, owner |-> ow, ret |-> r]

\* case AV_LOCK_CREATE; a is malloc's result, rc is pthread_mutex_init's
lock_create(st, h, a, rc) ==
    LET m == [st.mutex EXCEPT ![h] = a] IN
    IF a = NULL THEN Result(m, st.heap, st.owner, -1)
    ELSE IF rc # 0 THEN Result(m, [st.heap EXCEPT ![a] = "uninit"], st.owner, -1)
    ELSE Result(m, [st.heap EXCEPT ![a] = "init"], [st.owner EXCEPT ![a] = 0], 0)

\* lock_destroy without the "*mutex = NULL" after free
lock_destroy_dangling(st, h, rc) ==
    IF rc # 0 THEN Result(st.mutex, st.heap, st.owner, -1)
    ELSE Result(st.mutex, [st.heap EXCEPT ![st.mutex[h]] = "free"], st.owner, 0)

\* case AV_LOCK_DESTROY; rc is pthread_mutex_destroy's result
lock_destroy(st, h, rc) ==
    IF rc # 0 THEN Result(st.mutex, st.heap, st.owner, -1)
    ELSE Result([st.mutex EXCEPT ![h] = NULL],
                [st.heap EXCEPT ![st.mutex[h]] = "free"], st.owner, 0)

\* lock_obtain that reports success without taking the pthread mutex
lock_obtain_nolock(st, t, h, rc) == Result(st.mutex, st.heap, st.owner, 0)

\* case AV_LOCK_OBTAIN; rc is pthread_mutex_lock's result
lock_obtain(st, t, h, rc) ==
    IF rc # 0 THEN Result(st.mutex, st.heap, st.owner, -1)
    ELSE Result(st.mutex, st.heap, pthread_mutex_lock(st.owner, st.mutex[h], t), 0)

\* case AV_LOCK_RELEASE; rc is pthread_mutex_unlock's result
lock_release(st, h, rc) ==
    IF rc # 0 THEN Result(st.mutex, st.heap, st.owner, -1)
    ELSE Result(st.mutex, st.heap, pthread_mutex_unlock(st.owner, st.mutex[h]), 0)

\* a default case that falls out of the switch to "return 0"
lock_default_break(st) == Result(st.mutex, st.heap, st.owner, 0)

\* default: return -1
lock_default(st) == Result(st.mutex, st.heap, st.owner, -1)

lock_callback(st, t, h, op, a, rc) ==
    CASE op = "AV_LOCK_CREATE" -> lock_create(st, h, a, rc)
      [] op = "AV_LOCK_DESTROY" -> lock_destroy(st, h, rc)
      [] op = "AV_LOCK_OBTAIN" -> lock_obtain(st, t, h, rc)
      [] op = "AV_LOCK_RELEASE" -> lock_release(st, h, rc)
      [] OTHER -> lock_default(st)

----------------------------------------------------------------------------
(* moonfire_ffmpeg_init *)

\* the guard written as #ifdef, or as #if !FF_API_LOCKMGR
LockmgrCompiled_ifdef(mc) == mc # "undefined"

\* #ifndef FF_API_LOCKMGR
LockmgrCompiled(mc) == mc = "undefined"

\* the position moonfire_ffmpeg_init ends in, given av_lockmgr_register's result
InitOutcome(r) == IF r < 0 THEN "aborted" ELSE "returned"

moonfire_ffmpeg_init ==
    /\ initpc = "start"
    /\ IF LockmgrCompiled(macro)
       THEN \E r \in RegisterResults :
               /\ regRet' = <<r>>
               /\ initpc' = InitOutcome(r)
       ELSE /\ regRet' = <<>>
            /\ initpc' = "returned"
    /\ UNCHANGED <<macro, mutex, heap, owner, held, last>>
    /\ UNCHANGED accVars

\* FFmpeg calls the callback only once it is registered and the process lives
Registered == initpc = "returned" /\ regRet # <<>>

Initialised(h) == mutex[h] # NULL /\ heap[mutex[h]] = "init"

State == [mutex |-> mutex, heap |-> heap, owner |-> owner]

\* one call lock_callback(&mutex[h], op) by thread t
Call(t, h, op, a, rc) ==
    LET res == lock_callback(State, t, h, op, a, rc)
        arg == IF op = "AV_LOCK_CREATE" THEN a ELSE mutex[h] IN
    /\ mutex' = res.mutex
    /\ heap' = res.heap
    /\ owner' = res.owner
    /\ held' = IF op = "AV_LOCK_OBTAIN" /\ res.ret = 0
                 THEN [held EXCEPT ![t] = @ \cup {h}]
               ELSE IF op = "AV_LOCK_RELEASE" /\ res.ret = 0
                 THEN [held EXCEPT ![t] = @ \ {h}]
               ELSE held
    /\ last' = [op |-> op, h |-> h, a |-> arg, rc |-> rc, ret |-> res.ret]
    /\ UNCHANGED <<macro, initpc, regRet>>
    /\ UNCHANGED accVars

\* AV_LOCK_CREATE on a handle that holds no mutex yet; pthread_mutex_init
\* runs only when malloc succeeded
Create(t, h) ==
    /\ Registered
    /\ ~Initialised(h)
    /\ \E a \in MallocResults(heap) :
         \E rc \in (IF a = NULL THEN {0} ELSE PthreadResults) :
            Call(t, h, "AV_LOCK_CREATE", a, rc)

\* AV_LOCK_OBTAIN by a thread that does not hold the mutex; pthread_mutex_lock
\* returns 0 only once the mutex is unlocked (it blocks until then)
Obtain(t, h) ==
    /\ Registered
    /\ Initialised(h)
    /\ h \notin held[t]
    /\ \E rc \in PthreadResults :
         /\ rc = 0 => owner[mutex[h]] = 0
         /\ Call(t, h, "AV_LOCK_OBTAIN", NULL, rc)

\* AV_LOCK_RELEASE by the thread that obtained the mutex
Release(t, h) ==
    /\ Registered
    /\ Initialised(h)
    /\ h \in held[t]
    /\ \E rc \in PthreadResults : Call(t, h, "AV_LOCK_RELEASE", NULL, rc)

\* AV_LOCK_DESTROY once every OBTAIN has been matched by a RELEASE
Destroy(t, h) ==
    /\ Registered
    /\ Initialised(h)
    /\ \A u \in Thread : h \notin held[u]
    /\ \E rc \in PthreadResults : Call(t, h, "AV_LOCK_DESTROY", NULL, rc)

\* an operation code outside the four known ones
Other(t, h) ==
    /\ Registered
    /\ Call(t, h, OtherOp, NULL, 0)

LockInit ==
    /\ macro \in Macros
    /\ initpc = "start"
    /\ regRet = <<>>
    /\ mutex = [h \in Handle |-> NULL]
    /\ heap = [a \in Addr |-> "free"]
    /\ owner = [a \in Addr |-> 0]
    /\ held = [t \in Thread |-> {}]
    /\ last = [op |-> NoCall, h |-> 1, a |-> NULL, rc |-> 0, ret |-> 0]

Init == LockInit /\ AccIdle

Next ==
    \/ moonfire_ffmpeg_init
    \/ \E t \in Thread, h \in Handle : Create(t, h)
    \/ \E t \in Thread, h \in Handle : Obtain(t, h)
    \/ \E t \in Thread, h \in Handle : Release(t, h)
    \/ \E t \in Thread, h \in Handle : Destroy(t, h)
    \/ \E t \in Thread, h \in Handle : Other(t, h)

Spec == Init /\ [][Next]_vars

----------------------------------------------------------------------------
(* Claims about the lock manager, checked under Spec *)

Holders(h) == {t \in Thread : h \in held[t]}

\* C1: on one handle at most one thread is between a successful OBTAIN and
\* its RELEASE; the holder is the owner of that handle's pthread mutex; and
\* handles never share a pthread mutex, so a handle's mutex is locked exactly
\* when a thread is inside that same handle's critical section: threads on
\* other handles never block it.
C1_MutualExclusion ==
    /\ \A h \in Handle : Cardinality(Holders(h)) <= 1
    /\ \A h \in Handle : \A t \in Holders(h) :
          Initialised(h) /\ owner[mutex[h]] = t
    /\ \A h \in Handle :
          Initialised(h) => (owner[mutex[h]] # 0 <=> Holders(h) # {})
    /\ \A h1, h2 \in Handle :
          (h1 # h2 /\ mutex[h1] # NULL) => mutex[h1] # mutex[h2]

\* two threads are inside the critical sections of two distinct handles at
\* the same time, the second having just obtained its handle
C1_Witness ==
    \E t1, t2 \in Thread : \E h1, h2 \in Handle :
        /\ t1 # t2 /\ h1 # h2
        /\ h1 \in held[t1] /\ h2 \in held[t2]
        /\ last.op = "AV_LOCK_OBTAIN" /\ last.ret = 0

\* the underlying step of the last call failed
StepFailed ==
    CASE last.op = "AV_LOCK_CREATE" -> last.a = NULL \/ last.rc # 0
      [] last.op \in {"AV_LOCK_DESTROY", "AV_LOCK_OBTAIN", "AV_LOCK_RELEASE"} ->
            last.rc # 0
      [] OTHER -> TRUE

\* C2: lock_callback returns -1 when the underlying malloc or pthread call
\* failed and for an unknown operation code, and 0 exactly when the requested
\* operation's underlying step succeeded.
C2_ReturnCode ==
    last.op # NoCall =>
        /\ last.ret \in {-1, 0}
        /\ last.ret = -1 <=> StepFailed
        /\ last.ret = 0 <=> (last.op \in LockOps /\ ~StepFailed)

\* a RELEASE whose pthread_mutex_unlock failed
C2_Witness ==
    last.op = "AV_LOCK_RELEASE" /\ last.rc # 0 /\ last.ret = -1

\* C3: moonfire_ffmpeg_init calls av_lockmgr_register iff FF_API_LOCKMGR is
\* not defined; in that build it aborts exactly when the call returned a
\* negative value and returns otherwise; in a build that defines the macro
\* it neither registers nor aborts.
C3_InitRegistersIffUndefined ==
    initpc # "start" =>
        /\ regRet # <<>> <=> macro = "undefined"
        /\ initpc = "aborted" <=> (regRet # <<>> /\ regRet[1] < 0)
        /\ initpc = "returned" <=> (regRet = <<>> \/ regRet[1] >= 0)
        /\ macro # "undefined" => (regRet = <<>> /\ initpc = "returned")

\* the old build, where registration failed and the process aborted
C3_Witness ==
    macro = "undefined" /\ initpc = "aborted" /\ regRet = <<-1>>

\* C9: a DESTROY that returns 0 has freed the mutex and set the handle to
\* NULL, a DESTROY that returns -1 has left the handle and its mutex as they
\* were, and every initialised mutex is the one its handle points at, so that
\* once each created handle is destroyed no mutex of the shim is live.
C9_DestroyReleases ==
    /\ (last.op = "AV_LOCK_DESTROY" /\ last.ret = 0) =>
          (mutex[last.h] = NULL /\ heap[last.a] = "free")
    /\ (last.op = "AV_LOCK_DESTROY" /\ last.ret = -1) =>
          (mutex[last.h] = last.a /\ heap[last.a] = "init" /\ owner[last.a] = 0)
    /\ \A a \in Addr : heap[a] = "init" => \E h \in Handle : mutex[h] = a
    /\ (\A h \in Handle : mutex[h] = NULL) => \A a \in Addr : heap[a] # "init"

\* a successful DESTROY after which no block is allocated at all
C9_Witness ==
    /\ last.op = "AV_LOCK_DESTROY" /\ last.ret = 0
    /\ \A a \in Addr : heap[a] = "free"
    /\ \A h \in Handle : mutex[h] = NULL

\* C10: when CREATE returns -1 the call has left no block allocated and the
\* handle does not point at an uninitialised mutex.
C10_FailedCreateLeavesNothing ==
    (last.op = "AV_LOCK_CREATE" /\ last.ret = -1) =>
        /\ last.a # NULL => heap[last.a] = "free"
        /\ mutex[last.h] = NULL

----------------------------------------------------------------------------
(* The accessors as operations on one packet shell, one codec context, one *)
(* codec parameters object and one frame.  The lock manager is idle.       *)

LockIdle ==
    /\ macro = "1"
    /\ initpc = "returned"
    /\ regRet = <<>>
    /\ mutex = [h \in Handle |-> NULL]
    /\ heap = [a \in Addr |-> "free"]
    /\ owner = [a \in Addr |-> 0]
    /\ held = [t \in Thread |-> {}]
    /\ last = [op |-> NoCall, h |-> 1, a |-> NULL, rc |-> 0, ret |-> 0]

Ret(fn, val) == [fn |-> fn, val |-> val]

\* pkt = moonfire_ffmpeg_packet_alloc(); malloc succeeds or returns NULL
PacketAlloc ==
    /\ ~pkt.live
    /\ \E ok \in BOOLEAN :
         /\ pkt' = moonfire_ffmpeg_packet_alloc(ok, rawmem)
         /\ out' = Ret("packet_alloc", ok)
    /\ hist' = NoHist
    /\ UNCHANGED <<lockVars, rawmem, cctx, vp, codecpar, frame>>

\* moonfire_ffmpeg_packet_free(pkt); the block goes back to the allocator,
\* which may hand out any block next
PacketFree ==
    /\ pkt.live
    /\ pkt' = moonfire_ffmpeg_packet_free(pkt)
    /\ rawmem' \in RawSamples
    /\ hist' = NoHist
    /\ out' = Ret("packet_free", 0)
    /\ UNCHANGED <<lockVars, cctx, vp, codecpar, frame>>

PacketSetPts(v) ==
    /\ pkt.live
    /\ pkt' = moonfire_ffmpeg_packet_set_pts(pkt, v)
    /\ hist' = [hist EXCEPT !.pts = <<v>>]
    /\ out' = Ret("packet_set_pts", 0)
    /\ UNCHANGED <<lockVars, rawmem, cctx, vp, codecpar, frame>>

PacketSetDts(v) ==
    /\ pkt.live
    /\ pkt' = moonfire_ffmpeg_packet_set_dts(pkt, v)
    /\ hist' = [hist EXCEPT !.dts = <<v>>]
    /\ out' = Ret("packet_set_dts", 0)
    /\ UNCHANGED <<lockVars, rawmem, cctx, vp, codecpar, frame>>

PacketSetDuration(v) ==
    /\ pkt.live
    /\ pkt' = moonfire_ffmpeg_packet_set_duration(pkt, v)
    /\ hist' = [hist EXCEPT !.duration = <<v>>]
    /\ out' = Ret("packet_set_duration", 0)
    /\ UNCHANGED <<lockVars, rawmem, cctx, vp, codecpar, frame>>

\* a getter on the shell: its result is recorded, nothing else changes
PacketGet(fn, val) ==
    /\ pkt.live
    /\ out' = Ret(fn, val)
    /\ UNCHANGED <<lockVars, pkt, rawmem, hist, cctx, vp, codecpar, frame>>

PacketIsKey == PacketGet("packet_is_key", moonfire_ffmpeg_packet_is_key(pkt))
PacketPts == PacketGet("packet_pts", moonfire_ffmpeg_packet_pts(pkt))
PacketDts == PacketGet("packet_dts", moonfire_ffmpeg_packet_dts(pkt))
PacketDuration == PacketGet("packet_duration", moonfire_ffmpeg_packet_duration(pkt))
PacketStreamIndex ==
    PacketGet("packet_stream_index", moonfire_ffmpeg_packet_stream_index(pkt))
PacketData == PacketGet("packet_data", moonfire_ffmpeg_packet_data(pkt))

PacketInit ==
    /\ LockIdle
    /\ pkt = NoPacket
    /\ rawmem \in RawSamples
    /\ hist = NoHist
    /\ cctx = CodecContext(VideoParameters(0, 0, Rational(0, 1), -1, Rational(0, 1)),
                           0, -1, 0, 0)
    /\ vp = VideoParameters(0, 0, Rational(0, 0), 0, Rational(0, 0))
    /\ codecpar = CodecParameters(Dims(0, 0, -1), 0, -1, 0, 0)
    /\ frame = Frame(0, 0, -1, FALSE, Int64Min)
    /\ out = NoOut

PacketNext ==
    \/ PacketAlloc
    \/ PacketFree
    \/ \E v \in TsSamples : PacketSetPts(v)
    \/ \E v \in TsSamples : PacketSetDts(v)
    \/ \E v \in IntSamples : PacketSetDuration(v)
    \/ PacketIsKey
    \/ PacketPts
    \/ PacketDts
    \/ PacketDuration
    \/ PacketStreamIndex
    \/ PacketData

\* the packet shell: alloc, setters, getters, free
SpecPacket == PacketInit /\ [][PacketNext]_vars

----------------------------------------------------------------------------

CctxSetParams(p) ==
    /\ cctx' = moonfire_ffmpeg_cctx_set_params(cctx, p)
    /\ hist' = [hist EXCEPT !.params = <<p>>]
    /\ out' = Ret("cctx_set_params", 0)
    /\ UNCHANGED <<lockVars, pkt, rawmem, vp, codecpar, frame>>

CctxParams ==
    /\ vp' = moonfire_ffmpeg_cctx_params(cctx, vp)
    /\ out' = Ret("cctx_params", 0)
    /\ UNCHANGED <<lockVars, pkt, rawmem, hist, cctx, codecpar, frame>>

\* a getter on the FFmpeg-owned objects
CodecGet(fn, val) ==
    /\ out' = Ret(fn, val)
    /\ UNCHANGED <<lockVars, pkt, rawmem, hist, cctx, vp, codecpar, frame>>

CctxCodecId == CodecGet("cctx_codec_id", moonfire_ffmpeg_cctx_codec_id(cctx))
CctxCodecType == CodecGet("cctx_codec_type", moonfire_ffmpeg_cctx_codec_type(cctx))
CctxExtradata == CodecGet("cctx_extradata", moonfire_ffmpeg_cctx_extradata(cctx))
CodecparDims == CodecGet("codecpar_dims", moonfire_ffmpeg_codecpar_dims(codecpar))
CodecparExtradata ==
    CodecGet("codecpar_extradata", moonfire_ffmpeg_codecpar_extradata(codecpar))
FrameStuff == CodecGet("frame_stuff", moonfire_ffmpeg_frame_stuff(frame))

\* moonfire_ffmpeg_frame_image_alloc(frame, &d); r is what av_image_alloc returns
FrameImageAlloc(d) ==
    \E r \in ImageAllocResults(d) :
        LET res == moonfire_ffmpeg_frame_image_alloc(frame, d, r) IN
        /\ frame' = res.frame
        /\ out' = [fn |-> "frame_image_alloc", val |-> res.ret, r |-> r,
                   dims |-> d, pre |-> frame]
        /\ UNCHANGED <<lockVars, pkt, rawmem, hist, cctx, vp, codecpar>>

\* the objects FFmpeg hands to the host: a codec context, the codec
\* parameters of a stream, and a frame from av_frame_alloc
CctxSamples ==
    { CodecContext(VideoParameters(1920, 1080, Rational(1, 1), 0, Rational(1, 90000)),
                   27, 0, 1, 33),
      CodecContext(VideoParameters(0, 0, Rational(0, 1), -1, Rational(0, 1)),
                   0, -1, 0, 0),
      CodecContext(VideoParameters(64, 48, Rational(4, 3), 2, Rational(2, 25)),
                   1, 1, 2, IntMax),
      CodecContext(VideoParameters(64, 48, Rational(4, 3), 2, Rational(2, 25)),
                   1, 1, 2, -1) }

CodecparSamples ==
    { CodecParameters(Dims(64, 64, 2), 27, 0, 1, 33),
      CodecParameters(Dims(0, 0, -1), 0, -1, 0, 0),
      CodecParameters(Dims(320, 240, 3), 1, 1, 2, IntMax),
      CodecParameters(Dims(320, 240, 3), 1, 1, 2, IntMin) }

CodecObjects ==
    /\ cctx \in CctxSamples
    /\ codecpar \in CodecparSamples
    /\ frame = Frame(0, 0, -1, FALSE, Int64Min)

CodecInit ==
    /\ LockIdle
    /\ pkt = NoPacket
    /\ rawmem = Packet(0, 0, 0, 0, 0, 0, 0)
    /\ hist = NoHist
    /\ CodecObjects
    /\ vp \in {VideoParameters(0, 0, Rational(0, 0), 0, Rational(0, 0)),
               VideoParameters(-1, -1, Rational(-1, -1), -1, Rational(-1, -1))}
    /\ out = NoOut

CodecNext ==
    \/ \E p \in ParamSamples : CctxSetParams(p)
    \/ CctxParams
    \/ CctxCodecId
    \/ CctxCodecType
    \/ CodecparDims
    \/ \E d \in DimSamples : FrameImageAlloc(d)
    \/ FrameStuff

\* the codec context's parameter bundle and the frame's image allocation
SpecCodec == CodecInit /\ [][CodecNext]_vars

----------------------------------------------------------------------------

SpanInit ==
    /\ LockIdle
    /\ pkt = NoPacket
    /\ rawmem \in RawSamples
    /\ hist = NoHist
    /\ CodecObjects
    /\ vp = VideoParameters(0, 0, Rational(0, 0), 0, Rational(0, 0))
    /\ out = NoOut

SpanNext ==
    \/ PacketAlloc
    \/ PacketFree
    \/ PacketData
    \/ CctxExtradata
    \/ CodecparExtradata

\* the three byte spans: packet payload, codec context and codec parameters
\* extradata
SpecSpan == SpanInit /\ [][SpanNext]_vars

----------------------------------------------------------------------------
(* Claims about the accessors *)

WHF(f) == <<f.width, f.height, f.format>>

\* C4: moonfire_ffmpeg_frame_image_alloc returns av_image_alloc's result
\* unchanged; when it is negative the frame's width, height and format are
\* what they were before the call, and when it is not they are the requested
\* dims->width, dims->height and dims->pix_fmt.  (Under SpecCodec.)
C4_ImageAlloc ==
    out.fn = "frame_image_alloc" =>
        /\ out.val = out.r
        /\ out.r < 0 => WHF(frame) = WHF(out.pre)
        /\ out.r >= 0 =>
             WHF(frame) = <<out.dims.width, out.dims.height, out.dims.pix_fmt>>

\* an allocation that failed on a frame an earlier call had sized, for
\* dimensions other than the frame's
C4_Witness ==
    /\ out.fn = "frame_image_alloc"
    /\ out.r < 0
    /\ out.pre.width = 64
    /\ out.dims.width # frame.width

\* a set_params step changes none of the other fields of the codec context
SetParamsLeavesOthers ==
    out'.fn = "cctx_set_params" =>
        /\ cctx'.codec_id = cctx.codec_id
        /\ cctx'.codec_type = cctx.codec_type
        /\ cctx'.extradata = cctx.extradata
        /\ cctx'.extradata_size = cctx.extradata_size

\* C5: after set_params(C, P), params(C, Q) leaves Q equal to P in every
\* field, and a set_params step leaves codec_id, codec_type, extradata and
\* extradata_size of C as they were.  (Under SpecCodec.)
C5_ParamsRoundTrip ==
    /\ []((out.fn = "cctx_params" /\ hist.params # <<>>) => vp = hist.params[1])
    /\ [][SetParamsLeavesOthers]_vars

\* the 1080p bundle read back from a context that was created with other
\* parameters
C5_Witness ==
    /\ out.fn = "cctx_params"
    /\ hist.params # <<>>
    /\ vp = VideoParameters(1920, 1080, Rational(1, 1), 0, Rational(1, 90000))
    /\ cctx.codec_id = 1

\* a step of one setter leaves what the other two getters return unchanged
SetterLeavesOthers ==
    /\ out'.fn = "packet_set_pts" =>
          /\ moonfire_ffmpeg_packet_dts(pkt') = moonfire_ffmpeg_packet_dts(pkt)
          /\ moonfire_ffmpeg_packet_duration(pkt') = moonfire_ffmpeg_packet_duration(pkt)
    /\ out'.fn = "packet_set_dts" =>
          /\ moonfire_ffmpeg_packet_pts(pkt') = moonfire_ffmpeg_packet_pts(pkt)
          /\ moonfire_ffmpeg_packet_duration(pkt') = moonfire_ffmpeg_packet_duration(pkt)
    /\ out'.fn = "packet_set_duration" =>
          /\ moonfire_ffmpeg_packet_pts(pkt') = moonfire_ffmpeg_packet_pts(pkt)
          /\ moonfire_ffmpeg_packet_dts(pkt') = moonfire_ffmpeg_packet_dts(pkt)

\* C6: each of packet_pts, packet_dts and packet_duration returns the value
\* most recently written to its own field, and a step of one setter leaves
\* what the other two getters return unchanged.  (Under SpecPacket.)
C6_PacketFieldsRoundTrip ==
    /\ [](pkt.live =>
            /\ hist.pts # <<>> => moonfire_ffmpeg_packet_pts(pkt) = hist.pts[1]
            /\ hist.dts # <<>> => moonfire_ffmpeg_packet_dts(pkt) = hist.dts[1]
            /\ hist.duration # <<>> =>
                 moonfire_ffmpeg_packet_duration(pkt) = hist.duration[1])
    /\ []((out.fn = "packet_pts" /\ hist.pts # <<>>) => out.val = hist.pts[1])
    /\ []((out.fn = "packet_dts" /\ hist.dts # <<>>) => out.val = hist.dts[1])
    /\ []((out.fn = "packet_duration" /\ hist.duration # <<>>) =>
             out.val = hist.duration[1])
    /\ [][SetterLeavesOthers]_vars

\* PTS=1000, DTS=900, duration=33 written to a shell that held other bytes,
\* and the duration read back
C6_Witness ==
    /\ pkt.live
    /\ hist.pts = <<1000>> /\ hist.dts = <<900>> /\ hist.duration = <<33>>
    /\ out.fn = "packet_duration" /\ out.val = 33
    /\ rawmem.pts # 0

\* every field the shim reads from the shell is zero or NULL
ZeroShell(p) ==
    /\ ~moonfire_ffmpeg_packet_is_key(p)
    /\ moonfire_ffmpeg_packet_pts(p) = 0
    /\ moonfire_ffmpeg_packet_dts(p) = 0
    /\ moonfire_ffmpeg_packet_duration(p) = 0
    /\ moonfire_ffmpeg_packet_stream_index(p) = 0
    /\ moonfire_ffmpeg_packet_data(p) = Span(0, 0)

\* C7 as stated: right after a successful moonfire_ffmpeg_packet_alloc every
\* field readable through the shim is zero or NULL.  (Under SpecPacket.)
C7_AllocZeroInitialised ==
    (out.fn = "packet_alloc" /\ pkt.live) => ZeroShell(pkt)

\* C7 as amended: moonfire_ffmpeg_packet_alloc returns the block as malloc
\* left it, written by nobody (its fields are whatever the block held, zero
\* or not), or NULL; moonfire_ffmpeg_packet_free releases the shell.
C7_AllocRawShell ==
    /\ (out.fn = "packet_alloc" /\ out.val) =>
          (pkt.live /\ pkt.f = rawmem /\ hist = NoHist)
    /\ (out.fn = "packet_alloc" /\ ~out.val) => ~pkt.live
    /\ out.fn = "packet_free" => ~pkt.live

\* a fresh shell whose fields are not zero
C7_Witness ==
    /\ out.fn = "packet_alloc" /\ pkt.live
    /\ moonfire_ffmpeg_packet_pts(pkt) # 0
    /\ moonfire_ffmpeg_packet_is_key(pkt)

\* the span (ptr, len) a getter returned for the fields (data, size)
SpanIs(span, data, len) == span.data = data /\ span.len = len

\* the size_t a C int converts to
SizeOfInt(n) == IF n >= 0 THEN n ELSE n + SizeMax + 1

\* C8 as stated: the pointer of each span is the object's data pointer and
\* its length is numerically the int size field, whatever that field holds.
\* (Under SpecSpan.)
C8_SpanLenEqualsSize ==
    /\ out.fn = "packet_data" => SpanIs(out.val, pkt.f.data, pkt.f.size)
    /\ out.fn = "cctx_extradata" =>
          SpanIs(out.val, cctx.extradata, cctx.extradata_size)
    /\ out.fn = "codecpar_extradata" =>
          SpanIs(out.val, codecpar.extradata, codecpar.extradata_size)

\* C8 as amended: the pointer is the data pointer, and the length is the
\* size field when that is not negative and the size plus SIZE_MAX + 1 when
\* it is negative.
C8_SpanLenIsSizeAsSizeT ==
    /\ out.fn = "packet_data" =>
          SpanIs(out.val, pkt.f.data, SizeOfInt(pkt.f.size))
    /\ out.fn = "cctx_extradata" =>
          SpanIs(out.val, cctx.extradata, SizeOfInt(cctx.extradata_size))
    /\ out.fn = "codecpar_extradata" =>
          SpanIs(out.val, codecpar.extradata, SizeOfInt(codecpar.extradata_size))

\* the payload span of a shell whose size field holds -1
C8_Witness ==
    /\ out.fn = "packet_data"
    /\ pkt.f.size = -1
    /\ out.val.len = SizeMax

====
